---- MODULE Spec2Model ----
(***************************************************************************)
(* CustomSelect (src/src/components/CustomSelect.tsx): the dropdown of one *)
(* cron field.  The model covers the option-click handler with its click   *)
(* buffer, the clear handler, the option list and the text the closed      *)
(* control displays for the current value.                                 *)
(*                                                                         *)
(* JavaScript strings are sequences of one-character strings, so that      *)
(* Number(), toString(), replace() and slice() are computed, not assumed.  *)
(* A JavaScript scalar is a record [t, n, s]: t is its type tag, n its     *)
(* numeric value (when t = "number"), s its characters (when t = "string").*)
(***************************************************************************)
EXTENDS Integers, Sequences, FiniteSets

VARIABLES
    unit,                     \* prop unit: [type, min, max]
    mode,                     \* prop mode: "single" | "multiple"
    periodicityOnDoubleClick, \* prop
    disabled,                 \* prop
    readOnly,                 \* prop
    humanizeLabels,           \* prop
    leadingZero,              \* prop: boolean or list of unit types
    clockFormat,              \* prop: "undefined" | "12-hour-clock" | "24-hour-clock"
    filterOption,             \* prop: the predicate on options, as the numbers and steps it accepts
    value,                    \* prop value, as last passed to setValue by a handler
    clicks,                   \* clicksRef.current
    now,                      \* Date.now()
    shown,                    \* what the closed control renders for value
    hist                      \* the last handler calls (at most two), oldest first

vars == <<unit, mode, periodicityOnDoubleClick, disabled, readOnly, humanizeLabels,
          leadingZero, clockFormat, filterOption, value, clicks, now, shown, hist>>

(***************************************************************************)
(* Bounds of the model.                                                    *)
(***************************************************************************)
MaxClicks == 2      \* entries the click buffer may hold before single clicks stop
MaxTicks == 2       \* the clock stops after MaxTicks steps of 150ms
FmtSpan == 5        \* host-supplied selections range over min .. min+FmtSpan
InitSpan == 6       \* the largest initial selection lies in min .. min+InitSpan

(***************************************************************************)
(* JavaScript scalars and strings.                                         *)
(***************************************************************************)
Num(n) == [t |-> "number", n |-> n, s |-> <<>>]
NaN == [t |-> "NaN", n |-> 0, s |-> <<>>]
Str(s) == [t |-> "string", n |-> 0, s |-> s]
Undefined == [t |-> "undefined", n |-> 0, s |-> <<>>]

DigitChars == <<"0", "1", "2", "3", "4", "5", "6", "7", "8", "9">>

IsDigit(c) == \E i \in 1..10 : DigitChars[i] = c

DigitOf(c) == (CHOOSE i \in 1..10 : DigitChars[i] = c) - 1

\* Number.prototype.toString of a non-negative integer
RECURSIVE NumToString(_)
NumToString(n) ==
    IF n < 10 THEN <<DigitChars[n + 1]>>
    ELSE NumToString(n \div 10) \o <<DigitChars[(n % 10) + 1]>>

RECURSIVE DigitsValue(_)
DigitsValue(s) ==
    IF s = <<>> THEN 0
    ELSE 10 * DigitsValue(SubSeq(s, 1, Len(s) - 1)) + DigitOf(s[Len(s)])

\* Number(string): the empty string is 0, a run of digits its value, else NaN
NumberOfString(s) ==
    IF \A i \in 1..Len(s) : IsDigit(s[i]) THEN Num(DigitsValue(s)) ELSE NaN

\* ToNumber of a scalar, as the comparison operators apply it
ToNumber(x) ==
    CASE x.t = "number" -> x
      [] x.t = "string" -> NumberOfString(x.s)
      [] OTHER -> NaN

\* String(x), as template literals and toString() apply it
JsString(x) ==
    CASE x.t = "number" -> NumToString(x.n)
      [] x.t = "string" -> x.s
      [] x.t = "NaN" -> <<"N", "a", "N">>
      [] OTHER -> <<"u", "n", "d", "e", "f", "i", "n", "e", "d">>

isNaN(x) == ToNumber(x).t = "NaN"

\* x > k, x >= k, x < k, x === k for a scalar x and a number k
JsGt(x, k) == ToNumber(x).t = "number" /\ ToNumber(x).n > k
JsGe(x, k) == ToNumber(x).t = "number" /\ ToNumber(x).n >= k
JsLt(x, k) == ToNumber(x).t = "number" /\ ToNumber(x).n < k
JsStrictEq(x, k) == x.t = "number" /\ x.n = k

\* x - k: a number, or NaN
JsMinus(x, k) == IF isNaN(x) THEN NaN ELSE Num(ToNumber(x).n - k)

\* s.slice(-k)
SliceLast(s, k) == IF Len(s) <= k THEN s ELSE SubSeq(s, Len(s) - k + 1, Len(s))

StartsWith(s, p) == Len(s) >= Len(p) /\ SubSeq(s, 1, Len(p)) = p

PeriodicPrefix == <<"*", "/">>

EveryPrefix == <<"e", "v", "e", "r", "y", " ">>

\* value.replace(/^\*\//, '')
StripPeriodic(s) ==
    IF StartsWith(s, PeriodicPrefix) THEN SubSeq(s, Len(PeriodicPrefix) + 1, Len(s)) ELSE s

\* parts.join(sep)
RECURSIVE Join(_, _)
Join(parts, sep) ==
    IF parts = <<>> THEN <<>>
    ELSE IF Len(parts) = 1 THEN parts[1]
    ELSE parts[1] \o sep \o Join(Tail(parts), sep)

\* [...values].sort((a, b) => a - b) on numbers
RECURSIVE InsertSorted(_, _)
InsertSorted(x, s) ==
    IF s = <<>> THEN <<x>>
    ELSE IF x.n < s[1].n THEN <<x>> \o s
    ELSE <<s[1]>> \o InsertSorted(x, Tail(s))

RECURSIVE SortNumbers(_)
SortNumbers(s) ==
    IF Len(s) <= 1 THEN s
    ELSE InsertSorted(s[Len(s)], SortNumbers(SubSeq(s, 1, Len(s) - 1)))

\* array.indexOf(x), 0-based, -1 when absent
IndexOf(s, x) ==
    IF \E i \in 1..Len(s) : s[i] = x
    THEN (CHOOSE i \in 1..Len(s) : s[i] = x /\ \A j \in 1..(i - 1) : s[j] # x) - 1
    ELSE -1

\* array.splice(index, 1), 0-based index
Splice1(s, index) == SubSeq(s, 1, index) \o SubSeq(s, index + 2, Len(s))

ArrayIsArray(x) == x.t = "array"

(***************************************************************************)
(* The props the host supplies: units, locale, formatting configuration.   *)
(***************************************************************************)
Units ==
    { [type |-> "minutes",    min |-> 0, max |-> 59],
      [type |-> "hours",      min |-> 0, max |-> 23],
      [type |-> "month-days", min |-> 1, max |-> 31],
      [type |-> "months",     min |-> 1, max |-> 12],
      [type |-> "week-days",  min |-> 0, max |-> 6] }

\* locale.altWeekDays and locale.altMonths
altWeekDays ==
    << <<"S","U","N">>, <<"M","O","N">>, <<"T","U","E">>, <<"W","E","D">>,
       <<"T","H","U">>, <<"F","R","I">>, <<"S","A","T">> >>

altMonths ==
    << <<"J","A","N">>, <<"F","E","B">>, <<"M","A","R">>, <<"A","P","R">>,
       <<"M","A","Y">>, <<"J","U","N">>, <<"J","U","L">>, <<"A","U","G">>,
       <<"S","E","P">>, <<"O","C","T">>, <<"N","O","V">>, <<"D","E","C">> >>

\* array[i] for a scalar index i: undefined unless i is an index of the array
ArrayAt(arr, i) ==
    IF i.t = "number" /\ i.n >= 0 /\ i.n < Len(arr) THEN Str(arr[i.n + 1])
    ELSE IF i.t = "string" /\ ~isNaN(i) /\ i.s # <<>>
              /\ NumberOfString(i.s).n < Len(arr)
              /\ NumToString(NumberOfString(i.s).n) = i.s
         THEN Str(arr[NumberOfString(i.s).n + 1])
    ELSE Undefined

\* leadingZero: a boolean, or an array of unit types
LeadingZeroBool(b) == [t |-> "boolean", b |-> b, a |-> {}]
LeadingZeroList(a) == [t |-> "array", b |-> FALSE, a |-> a]

LeadingZeroValues ==
    { LeadingZeroBool(FALSE), LeadingZeroBool(TRUE),
      LeadingZeroList({"hours", "month-days"}) }

ClockFormats == {"undefined", "12-hour-clock", "24-hour-clock"}

(***************************************************************************)
(* The display formatter of the closed control.                            *)
(***************************************************************************)
isLeadingZeroType(type) == type \in {"month-days", "hours", "minutes"}

shouldAddLeadingZero(type, lz, cf) ==
    \/ (isLeadingZeroType(type) /\ lz.t = "boolean" /\ lz.b)
    \/ (lz.t = "array" /\ isLeadingZeroType(type) /\ type \in lz.a)
    \/ (cf = "24-hour-clock" /\ type \in {"hours", "minutes"})

\* formatValue(val, unit) of the render: a scalar, a string or undefined
formatValue(val, u, hl, lz, cf) ==
    IF u.type = "hours" /\ cf = "12-hour-clock"
    THEN LET hour == IF JsStrictEq(val, 0) THEN Num(12)
                     ELSE IF JsGt(val, 12) THEN JsMinus(val, 12) ELSE val
             ampm == IF JsGe(val, 12) THEN <<"P", "M">> ELSE <<"A", "M">>
         IN  IF shouldAddLeadingZero(u.type, lz, cf)
             THEN Str(SliceLast(<<"0">> \o JsString(hour) \o ampm, 6))
             ELSE Str(JsString(hour) \o ampm)
    ELSE LET numericValue ==
                 IF shouldAddLeadingZero(u.type, lz, cf) /\ JsLt(val, 10)
                 THEN <<"0">> \o JsString(val) ELSE JsString(val)
         IN  IF hl /\ u.type = "week-days"
             THEN ArrayAt(altWeekDays, IF JsStrictEq(val, 7) THEN Num(0) ELSE val)
             ELSE IF hl /\ u.type = "months"
             THEN ArrayAt(altMonths, JsMinus(val, 1))
             ELSE Str(numericValue)

\* `${formatValue(val, unit)}`
fv(val, u, hl, lz, cf) == JsString(formatValue(val, u, hl, lz, cf))

\* the expected progression of hasConsistentInterval: start, start+interval, ... <= end
RECURSIVE expectedFrom(_, _, _)
expectedFrom(i, end, interval) ==
    IF i <= end THEN <<Num(i)>> \o expectedFrom(i + interval, end, interval) ELSE <<>>

\* hasConsistentInterval accepting two values, as stringValue's test does
hasConsistentInterval_Two(values) ==
    IF Len(values) < 2
    THEN [isValid |-> FALSE, interval |-> 0, start |-> 0, end |-> 0]
    ELSE LET interval == values[2].n - values[1].n
             start == values[1].n
             end == values[Len(values)].n
         IN  IF interval <= 1
             THEN [isValid |-> FALSE, interval |-> 0, start |-> 0, end |-> 0]
             ELSE [isValid |-> values = expectedFrom(start, end, interval),
                   interval |-> interval, start |-> start, end |-> end]

hasConsistentInterval(values) ==
    IF Len(values) < 3
    THEN [isValid |-> FALSE, interval |-> 0, start |-> 0, end |-> 0]
    ELSE LET interval == values[2].n - values[1].n
             start == values[1].n
             end == values[Len(values)].n
         IN  IF interval <= 1
             THEN [isValid |-> FALSE, interval |-> 0, start |-> 0, end |-> 0]
             ELSE [isValid |-> values = expectedFrom(start, end, interval),
                   interval |-> interval, start |-> start, end |-> end]

\* the loop that cuts sortedValues into runs of consecutive integers:
\* i is the 1-based position read next, currentRange the run under way
RECURSIVE rangesFrom(_, _, _, _)
rangesFrom(sortedValues, i, currentRange, ranges) ==
    IF i > Len(sortedValues) THEN Append(ranges, currentRange)
    ELSE IF sortedValues[i].n = sortedValues[i - 1].n + 1
    THEN rangesFrom(sortedValues, i + 1, Append(currentRange, sortedValues[i]), ranges)
    ELSE rangesFrom(sortedValues, i + 1, <<sortedValues[i]>>,
                    Append(ranges, IF Len(currentRange) > 1 THEN currentRange
                                   ELSE <<currentRange[1]>>))

\* rangePart with every run written first-last, a run of one value too
rangePart_AlwaysDash(range, u, hl, lz, cf) ==
    fv(range[1], u, hl, lz, cf) \o <<"-">> \o fv(range[Len(range)], u, hl, lz, cf)

rangePart(range, u, hl, lz, cf) ==
    IF Len(range) = 1 THEN fv(range[1], u, hl, lz, cf)
    ELSE fv(range[1], u, hl, lz, cf) \o <<"-">> \o fv(range[Len(range)], u, hl, lz, cf)

rangesText(sortedValues, u, hl, lz, cf) ==
    LET ranges == rangesFrom(sortedValues, 2, <<sortedValues[1]>>, <<>>)
    IN  Join([k \in 1..Len(ranges) |-> rangePart(ranges[k], u, hl, lz, cf)], <<",">>)

intervalText(r, u, hl, lz, cf) ==
    IF u.type = "hours" /\ r.interval = 2 THEN EveryPrefix \o <<"2">>
    ELSE IF u.type = "week-days" /\ r.interval = 2 THEN EveryPrefix \o <<"2">>
    ELSE fv(Num(r.start), u, hl, lz, cf) \o <<"-">> \o fv(Num(r.end), u, hl, lz, cf)
         \o <<"/">> \o NumToString(r.interval)

\* singleValueText with the test val > 0
singleValueText_AboveZero(val, u, hl, lz, cf) ==
    IF JsGt(val, 0)
    THEN Str(EveryPrefix \o fv(val, u, hl, lz, cf))
    ELSE formatValue(val, u, hl, lz, cf)

singleValueText(val, u, hl, lz, cf) ==
    IF JsGt(val, 1)
    THEN Str(EveryPrefix \o fv(val, u, hl, lz, cf))
    ELSE formatValue(val, u, hl, lz, cf)

\* The text of the closed control: [empty |-> TRUE] stands for the unit's empty
\* placeholder of the locale, else text is the scalar the render returns.
Display(v, u, hl, lz, cf) ==
    IF Len(v) = 0 THEN [empty |-> TRUE, key |-> u.type, text |-> Undefined]
    ELSE IF Len(v) = 1
    THEN [empty |-> FALSE, key |-> u.type, text |-> singleValueText(v[1], u, hl, lz, cf)]
    ELSE LET sortedValues == SortNumbers(v)
             r == hasConsistentInterval(sortedValues)
         IN  [empty |-> FALSE, key |-> u.type,
              text |-> IF r.isValid THEN Str(intervalText(r, u, hl, lz, cf))
                       ELSE Str(rangesText(sortedValues, u, hl, lz, cf))]

(***************************************************************************)
(* stringValue and the option list.                                        *)
(***************************************************************************)
\* formatValue(value, unit) imported from ../converter, called without
\* humanize, leading-zero or clock-format arguments: the digits of the value
converterFormatValue(val, u) == JsString(val)

isSequential(sortedValues, diff) ==
    \A i \in 2..Len(sortedValues) : sortedValues[i].n = sortedValues[i - 1].n + diff

\* the memo stringValue: always a string
stringValue(v, u) ==
    IF Len(v) = 0 THEN Str(<<>>)
    ELSE LET sortedValues == SortNumbers(v)
             diff == sortedValues[2].n - sortedValues[1].n
         IN  IF Len(sortedValues) >= 2 /\ isSequential(sortedValues, diff) /\ diff > 1
             THEN Str(converterFormatValue(sortedValues[1], u) \o <<"-">>
                      \o converterFormatValue(sortedValues[Len(sortedValues)], u)
                      \o <<"/">> \o NumToString(diff))
             ELSE IF Len(sortedValues) = 1 /\ JsGt(sortedValues[1], 1)
             THEN Str(EveryPrefix \o converterFormatValue(sortedValues[1], u))
             ELSE Str(Join([k \in 1..Len(sortedValues) |->
                               converterFormatValue(sortedValues[k], u)], <<",">>))

\* the numbers and steps whose options the host of the click handlers keeps
ShownNumbers == {1, 5}

Min(a, b) == IF a <= b THEN a ELSE b

\* the two loops of generateNumericOptions, before the filter
numericOptions(u) ==
    [k \in 1..(u.max - u.min + 1) |->
        [value |-> NumToString(u.min + k - 1), isPeriodicValue |-> FALSE]]

\* the periodic options generated for every unit
periodicOptions_AllUnits(u) ==
    [k \in 1..(Min(30, u.max) - 1) |->
        [value |-> PeriodicPrefix \o NumToString(k + 1), isPeriodicValue |-> TRUE]]

periodicOptions(u) ==
    IF u.type \in {"minutes", "hours"}
    THEN [k \in 1..(Min(30, u.max) - 1) |->
            [value |-> PeriodicPrefix \o NumToString(k + 1), isPeriodicValue |-> TRUE]]
    ELSE <<>>

\* the list of generateNumericOptions before its filter
generated(u) == numericOptions(u) \o periodicOptions(u)

\* result.filter(opt => !opt.hidden && filterOption(opt)): no generated option is
\* hidden; f tells which options the prop filterOption accepts, the discrete ones by
\* their number and the periodic ones by their step
options(u, f) ==
    LET keep(opt) == IF opt.isPeriodicValue
                     THEN DigitsValue(StripPeriodic(opt.value)) \in f.periodic
                     ELSE DigitsValue(opt.value) \in f.discrete
    IN  SelectSeq(generated(u), keep)

\* the default filterOption, () => true
AcceptAll ==
    [discrete |-> UNION {u.min .. u.max : u \in Units},
     periodic |-> UNION {u.min .. u.max : u \in Units}]

\* the filterOption of the host of the click handlers
ShownFilter == [discrete |-> ShownNumbers, periodic |-> ShownNumbers]

\* the numbers and steps the hosts' filters tell apart
FilterNumbers == {0, 5, 31}
FilterSteps == {5, 30}

\* the predicates filterOption of the hosts
Filters ==
    { [discrete |-> d, periodic |-> p] : d \in SUBSET FilterNumbers, p \in SUBSET FilterSteps }
    \cup {AcceptAll, ShownFilter}

\* the memo options, computed once per unit and filter
optionsOf == [u \in Units, f \in Filters |-> options(u, f)]

(***************************************************************************)
(* The click handlers.                                                     *)
(***************************************************************************)
DoubleClickWindow == 300

NoCommit == [commit |-> FALSE, newValue |-> <<>>]
Commit(v) == [commit |-> TRUE, newValue |-> v]

\* lastClick && lastClick.value === value && now - lastClick.timestamp < 300
isDoubleClick(cl, val, t) ==
    /\ Len(cl) > 0
    /\ cl[Len(cl)].value = val
    /\ t - cl[Len(cl)].timestamp < DoubleClickWindow

\* the buffer left as it is after a double click
bufferAfterDouble_Keep(cl) == cl

\* clicksRef.current = [] after a double click
bufferAfterDouble(cl) == <<>>

\* doubleClick committing the number itself instead of the periodic token
doubleClick_Numeric(val, dis, ro, pdc) ==
    IF dis \/ ro \/ ~pdc THEN NoCommit
    ELSE LET numericValue == ToNumber(Str(val))
         IN  IF isNaN(numericValue) THEN NoCommit
             ELSE Commit(<<numericValue>>)

\* doubleClick(value): what it passes to setValue, if anything
\* doubleClick not reading the prop periodicityOnDoubleClick
doubleClick_IgnoresProp(val, dis, ro, pdc) ==
    IF dis \/ ro THEN NoCommit
    ELSE LET numericValue == ToNumber(Str(val))
         IN  IF isNaN(numericValue) THEN NoCommit
             ELSE Commit(<<Str(PeriodicPrefix \o JsString(numericValue))>>)

\* a double click on the value that is the whole selection empties the selection
doubleClick_ToggleOff(val, dis, ro, pdc) ==
    IF dis \/ ro \/ ~pdc THEN NoCommit
    ELSE LET numericValue == ToNumber(Str(val))
         IN  IF isNaN(numericValue) THEN NoCommit
             ELSE IF value = <<numericValue>> THEN Commit(<<>>)
             ELSE Commit(<<Str(PeriodicPrefix \o JsString(numericValue))>>)

\* the periodic token added to the current selection
doubleClick_AppendToken(val, dis, ro, pdc) ==
    IF dis \/ ro \/ ~pdc THEN NoCommit
    ELSE LET numericValue == ToNumber(Str(val))
         IN  IF isNaN(numericValue) THEN NoCommit
             ELSE Commit(Append(value, Str(PeriodicPrefix \o JsString(numericValue))))

doubleClick(val, dis, ro, pdc) ==
    IF dis \/ ro \/ ~pdc THEN NoCommit
    ELSE LET numericValue == ToNumber(Str(val))
         IN  IF isNaN(numericValue) THEN NoCommit
             ELSE Commit(<<Str(PeriodicPrefix \o JsString(numericValue))>>)

\* singleClick starting, in multiple mode, from the prop value instead of stringValue
singleClick_FromValue(val, md, sv) ==
    LET numericValue == ToNumber(Str(StripPeriodic(val)))
    IN  IF md = "single" THEN Commit(<<numericValue>>)
        ELSE LET newValue == value
                 index == IndexOf(newValue, numericValue)
             IN  IF index = -1 THEN Commit(Append(newValue, numericValue))
                 ELSE Commit(Splice1(newValue, index))

\* singleClick committing, in single mode, the token instead of its number
singleClick_RawToken(val, md, sv) ==
    LET numericValue == ToNumber(Str(StripPeriodic(val)))
    IN  IF md = "single" THEN Commit(<<Str(val)>>)
        ELSE LET newValue == IF ArrayIsArray(sv) THEN sv.a ELSE <<>>
                 index == IndexOf(newValue, numericValue)
             IN  IF index = -1 THEN Commit(Append(newValue, numericValue))
                 ELSE Commit(Splice1(newValue, index))

\* the single-click branch of onOptionClick: what it passes to setValue
singleClick(val, md, sv) ==
    LET numericValue == ToNumber(Str(StripPeriodic(val)))
    IN  IF md = "single" THEN Commit(<<numericValue>>)
        ELSE LET newValue == IF ArrayIsArray(sv) THEN sv.a ELSE <<>>
                 index == IndexOf(newValue, numericValue)
             IN  IF index = -1 THEN Commit(Append(newValue, numericValue))
                 ELSE Commit(Splice1(newValue, index))

\* onClear: what it passes to setValue
clearResult(ro) == IF ~ro THEN Commit(<<>>) ELSE NoCommit

(***************************************************************************)
(* The state machine.                                                      *)
(***************************************************************************)
Render(v) == Display(v, unit, humanizeLabels, leadingZero, clockFormat)

Event(op, token, pre, r) ==
    [op |-> op, token |-> token, pre |-> pre, commit |-> r.commit]

Push(h, e) == IF Len(h) < 2 THEN Append(h, e) ELSE <<h[2], e>>

\* the host stores what setValue receives and passes it back as the prop value
Apply(r) ==
    /\ value' = IF r.commit THEN r.newValue ELSE value
    /\ shown' = Render(IF r.commit THEN r.newValue ELSE value)

RECURSIVE SeqOfSet(_)
SeqOfSet(S) ==
    IF S = {} THEN <<>>
    ELSE LET m == CHOOSE x \in S : \A y \in S : x <= y
         IN  <<Num(m)>> \o SeqOfSet(S \ {m})

Domain(u) == u.min .. u.max

\* selections the host starts the control with: none, two values, and, for a
\* unit of at most InitSpan+1 values (week days), all of them but one
InitValues(u) ==
    { SeqOfSet({}), SeqOfSet({1, 2}) }
    \cup (IF u.max - u.min <= InitSpan THEN {SeqOfSet(Domain(u) \ {5})} ELSE {})

Init ==
    /\ unit \in Units
    /\ mode \in {"single", "multiple"}
    /\ periodicityOnDoubleClick \in BOOLEAN
    /\ disabled = FALSE
    /\ readOnly = FALSE
    /\ humanizeLabels \in BOOLEAN
    /\ leadingZero = LeadingZeroBool(FALSE)
    /\ clockFormat = "undefined"
    /\ filterOption = ShownFilter
    /\ value \in InitValues(unit)
    /\ clicks = <<>>
    /\ now = 0
    /\ hist = <<>>
    /\ shown = Display(value, unit, humanizeLabels, leadingZero, clockFormat)

Props == <<unit, mode, periodicityOnDoubleClick, humanizeLabels, leadingZero, clockFormat,
           filterOption>>

\* onOptionClick(value) for an option of the list
OptionClick(val) ==
    IF disabled \/ readOnly
    THEN /\ hist' = Push(hist, Event("ignored", val, value, NoCommit))
         /\ UNCHANGED <<Props, disabled, readOnly, value, clicks, now, shown>>
    ELSE IF isDoubleClick(clicks, val, now)
    THEN LET r == doubleClick(val, disabled, readOnly, periodicityOnDoubleClick)
         IN  /\ Apply(r)
             /\ clicks' = bufferAfterDouble(clicks)
             /\ hist' = Push(hist, Event("double", val, value, r))
             /\ UNCHANGED <<Props, disabled, readOnly, now>>
    ELSE IF isNaN(ToNumber(Str(StripPeriodic(val))))
    THEN /\ hist' = Push(hist, Event("ignored", val, value, NoCommit))
         /\ UNCHANGED <<Props, disabled, readOnly, value, clicks, now, shown>>
    ELSE LET r == singleClick(val, mode, stringValue(value, unit))
         IN  /\ Len(clicks) < MaxClicks
             /\ Apply(r)
             /\ clicks' = Append(clicks, [value |-> val, timestamp |-> now])
             /\ hist' = Push(hist, Event("single", val, value, r))
             /\ UNCHANGED <<Props, disabled, readOnly, now>>

\* onClear
Clear ==
    LET r == clearResult(readOnly)
    IN  /\ Apply(r)
        /\ hist' = Push(hist, Event("clear", <<>>, value, r))
        /\ UNCHANGED <<Props, disabled, readOnly, clicks, now>>

\* time passes
TickSteps == {150, 300}

Tick(d) ==
    /\ now + d <= MaxTicks * 150
    /\ now' = now + d
    /\ UNCHANGED <<Props, disabled, readOnly, value, clicks, shown, hist>>

\* the host changes the props disabled and readOnly
HostSetDisabled ==
    /\ disabled' = ~disabled
    /\ UNCHANGED <<Props, readOnly, value, clicks, now, shown, hist>>

HostSetReadOnly ==
    /\ readOnly' = ~readOnly
    /\ UNCHANGED <<Props, disabled, value, clicks, now, shown, hist>>

Next ==
    \/ \E k \in 1..Len(optionsOf[unit, filterOption]) :
            OptionClick(optionsOf[unit, filterOption][k].value)
    \/ Clear
    \/ \E d \in TickSteps : Tick(d)
    \/ HostSetDisabled
    \/ HostSetReadOnly

Spec == Init /\ [][Next]_vars

(***************************************************************************)
(* The formatter on host-supplied selections: the host passes any list of  *)
(* distinct numbers of the unit as the prop value, under any formatting    *)
(* configuration, and the control renders it.                              *)
(***************************************************************************)
RECURSIVE Reverse(_)
Reverse(q) == IF q = <<>> THEN <<>> ELSE Append(Reverse(Tail(q)), q[1])

ExampleSets == { {1, 2, 3, 7, 8, 10}, {1, 6, 11, 16, 21, 26, 31}, {2, 12, 22}, {0, 4, 8, 12} }

FmtValues(u) ==
    { SeqOfSet(S) : S \in SUBSET (u.min .. Min(u.max, u.min + FmtSpan)) }
    \cup { SeqOfSet(S) : S \in {E \in ExampleSets : E \subseteq Domain(u)} }
    \cup { Reverse(SeqOfSet(S)) : S \in {E \in ExampleSets : E \subseteq Domain(u)} }

InitFmt ==
    /\ unit \in Units
    /\ mode = "multiple"
    /\ periodicityOnDoubleClick = FALSE
    /\ disabled = FALSE
    /\ readOnly = FALSE
    /\ humanizeLabels \in BOOLEAN
    /\ leadingZero \in LeadingZeroValues
    /\ clockFormat \in ClockFormats
    /\ filterOption = AcceptAll
    /\ value = <<>>
    /\ clicks = <<>>
    /\ now = 0
    /\ hist = <<>>
    /\ shown = Display(value, unit, humanizeLabels, leadingZero, clockFormat)

\* the host passes another value; the control renders it
HostSetValue(v) ==
    /\ value' = v
    /\ shown' = Render(v)
    /\ UNCHANGED <<Props, disabled, readOnly, clicks, now, hist>>

NextFmt == \E v \in FmtValues(unit) : HostSetValue(v)

SpecFmt == InitFmt /\ [][NextFmt]_vars

(***************************************************************************)
(* The option list under the hosts' filters: the host passes any of the    *)
(* predicates Filters as the prop filterOption, for any unit, and the memo *)
(* options is computed again.                                              *)
(***************************************************************************)
InitOpt ==
    /\ unit \in Units
    /\ mode = "multiple"
    /\ periodicityOnDoubleClick = FALSE
    /\ disabled = FALSE
    /\ readOnly = FALSE
    /\ humanizeLabels = FALSE
    /\ leadingZero = LeadingZeroBool(FALSE)
    /\ clockFormat = "undefined"
    /\ filterOption = AcceptAll
    /\ value = <<>>
    /\ clicks = <<>>
    /\ now = 0
    /\ hist = <<>>
    /\ shown = Display(value, unit, humanizeLabels, leadingZero, clockFormat)

\* the host passes another filterOption
HostSetFilter(f) ==
    /\ filterOption' = f
    /\ UNCHANGED <<unit, mode, periodicityOnDoubleClick, humanizeLabels, leadingZero,
                   clockFormat, disabled, readOnly, value, clicks, now, shown, hist>>

NextOpt == \E f \in Filters : HostSetFilter(f)

SpecOpt == InitOpt /\ [][NextOpt]_vars

(***************************************************************************)
(* Vocabulary of the properties.                                           *)
(***************************************************************************)
Last == hist[Len(hist)]

\* the number an option token stands for
TokenNumber(tok) == ToNumber(Str(StripPeriodic(tok)))

IsNumericToken(tok) == ~StartsWith(tok, PeriodicPrefix)

\* the selection holds numbers only
IsDiscrete(v) == \A i \in 1..Len(v) : v[i].t = "number"

ValueSet(v) == {v[i].n : i \in 1..Len(v)}

\* the one-element selection holding the periodic token of a step
PeriodicSelection(step) == <<Str(PeriodicPrefix \o NumToString(step))>>

SetMin(S) == CHOOSE x \in S : \A y \in S : x <= y
SetMax(S) == CHOOSE x \in S : \A y \in S : x >= y

\* S = {first, first+d, ..., last} with at least 3 values and d > 1
IsProgression(S, d) ==
    /\ Cardinality(S) >= 3
    /\ d > 1
    /\ S = {SetMin(S) + k * d : k \in 0..(Cardinality(S) - 1)}

HasProgression(S) == \E d \in 2..(SetMax(S) - SetMin(S)) : IsProgression(S, d)

\* the maximal runs of consecutive integers of S, as pairs <<first, last>>
MaximalRuns(S) ==
    {r \in S \X S : /\ r[1] <= r[2]
                    /\ \A x \in r[1]..r[2] : x \in S
                    /\ (r[1] - 1) \notin S
                    /\ (r[2] + 1) \notin S}

RenderedValue(n) == fv(Num(n), unit, humanizeLabels, leadingZero, clockFormat)

\* the runs in ascending order, a run of one as its value, longer ones as first-last
RECURSIVE RunsText(_)
RunsText(R) ==
    IF R = {} THEN <<>>
    ELSE LET r == CHOOSE x \in R : \A y \in R : x[1] <= y[1]
             part == IF r[1] = r[2] THEN RenderedValue(r[1])
                     ELSE RenderedValue(r[1]) \o <<"-">> \o RenderedValue(r[2])
         IN  IF R = {r} THEN part ELSE part \o <<",">> \o RunsText(R \ {r})

DefaultFormat ==
    /\ ~humanizeLabels
    /\ leadingZero = LeadingZeroBool(FALSE)
    /\ clockFormat = "undefined"

\* a click on a token, then at once a second click on it that was taken as a double click
DoubleAfterSingle ==
    /\ Len(hist) = 2
    /\ hist[1].op = "single"
    /\ hist[2].op = "double"
    /\ hist[1].token = hist[2].token

\* two successive clicks on options of the same value, each taken as a single click
TwoSingles ==
    /\ Len(hist) = 2
    /\ hist[1].op = "single"
    /\ hist[2].op = "single"
    /\ TokenNumber(hist[1].token) = TokenNumber(hist[2].token)

LastSingle == Len(hist) >= 1 /\ Last.op = "single"

LastDouble == Len(hist) >= 1 /\ Last.op = "double"

C2_ToggleTwice ==
    (TwoSingles /\ mode = "multiple") => value = hist[1].pre

(***************************************************************************)
(* C3.                                                                     *)
(***************************************************************************)
\* C3: in multiple mode a single click on v with a discrete selection S commits S
\* without v when v is in S, and S plus v in ascending order when it is not.
C3_Toggle ==
    (LastSingle /\ mode = "multiple" /\ IsDiscrete(Last.pre))
    => LET v == TokenNumber(Last.token).n
           S == ValueSet(Last.pre)
       IN  value = SeqOfSet(IF v \in S THEN S \ {v} ELSE S \cup {v})

(***************************************************************************)
(* C4.                                                                     *)
(***************************************************************************)
\* C4: when a single click toggles in the last value the selection lacked, so that
\* all of the unit's values are selected, the committed selection is the empty
\* selection and the control shows the unit's empty placeholder.
C4_FullIsEmpty ==
    (LastSingle /\ mode = "multiple" /\ IsDiscrete(Last.pre)
        /\ TokenNumber(Last.token).n \notin ValueSet(Last.pre)
        /\ ValueSet(Last.pre) \cup {TokenNumber(Last.token).n} = Domain(unit))
    => (value = <<>> /\ shown.empty)

(***************************************************************************)
(* C5.                                                                     *)
(***************************************************************************)
\* C5: in single mode, after a single click the committed selection holds exactly
\* the value of the clicked option, whatever was selected before; a click on the
\* value that is already the only one selected leaves the selection as it was.
C5_SingleMode ==
    (LastSingle /\ mode = "single")
    => /\ Last.commit
       /\ value = <<TokenNumber(Last.token)>>
       /\ (Last.pre = <<TokenNumber(Last.token)>> => value = Last.pre)

C5_Witness ==
    /\ mode = "single"
    /\ Len(hist) = 2
    /\ hist[1].op = "single" /\ hist[1].token = <<"1">>
    /\ hist[2].op = "single" /\ hist[2].token = <<"5">>
    /\ hist[2].pre = <<Num(1)>>
    /\ value = <<Num(5)>>

(***************************************************************************)
(* C6.                                                                     *)
(***************************************************************************)
\* the set {min, min+step, ...} within [min, max]
PeriodicSet(u, step) == {x \in Domain(u) : (x - u.min) % step = 0}

\* C6 as stated: a double click that commits commits the discrete values min,
\* min+step, min+2*step, ... up to max, in place of the previous selection.
C6_PeriodicSet ==
    (LastDouble /\ Last.commit /\ TokenNumber(Last.token).n > 0)
    => value = SeqOfSet(PeriodicSet(unit, TokenNumber(Last.token).n))

\* C6 amended: a double click on a numeric token commits, when the control is
\* enabled and periodicityOnDoubleClick is on, the one-element selection holding the
\* periodic token of that step in place of the previous selection, and commits
\* nothing otherwise; for month days and step 5 the selection is the token */5.
C6_PeriodicToken ==
    LastDouble
    => /\ Last.commit <=> (periodicityOnDoubleClick /\ IsNumericToken(Last.token))
       /\ Last.commit => value = PeriodicSelection(TokenNumber(Last.token).n)
       /\ (Last.commit /\ unit.type = "month-days" /\ Last.token = <<"5">>)
            => value = <<Str(<<"*", "/", "5">>)>>
       /\ ~Last.commit => value = Last.pre

C6_Witness ==
    /\ LastDouble
    /\ Last.commit
    /\ unit = [type |-> "month-days", min |-> 1, max |-> 31]
    /\ Last.token = <<"5">>
    /\ Last.pre = <<Num(5)>>
    /\ value = <<Str(<<"*", "/", "5">>)>>

(***************************************************************************)
(* C7.                                                                     *)
(***************************************************************************)
\* a selection the handlers commit: the empty one (clear), or one element
Committable(v) == Len(v) <= 1

\* the selections of the last handler calls
SeenSelections == {value} \cup {hist[k].pre : k \in 1..Len(hist)}

\* C7: the displayed text tells the committable selections of a unit and
\* configuration apart (as parsing it back to the selection requires).
C7_DisplayInjective ==
    \A a, b \in SeenSelections :
        (Committable(a) /\ Committable(b) /\ Render(a) = Render(b)) => a = b

(***************************************************************************)
(* C8.                                                                     *)
(***************************************************************************)
\* C8: a selection of two or more values that is not a progression of at least 3
\* values with difference above 1 is displayed as its maximal runs of consecutive
\* integers in ascending order joined by commas, a run of one as its rendered
\* value and a longer run as first-last; {1,2,3,7,8,10} is displayed as
\* 1-3,7-8,10 on a unit starting at 0.
C8_Ranges ==
    (IsDiscrete(value) /\ Len(value) >= 2 /\ ~HasProgression(ValueSet(value)))
    => /\ ~shown.empty
       /\ shown.text = Str(RunsText(MaximalRuns(ValueSet(value))))
       /\ (DefaultFormat /\ unit.min = 0 /\ ValueSet(value) = {1, 2, 3, 7, 8, 10})
            => shown.text.s = <<"1", "-", "3", ",", "7", "-", "8", ",", "1", "0">>

C8_Witness ==
    /\ unit.type = "minutes"
    /\ DefaultFormat
    /\ value = SeqOfSet({1, 2, 3, 7, 8, 10})
    /\ shown.text.s = <<"1", "-", "3", ",", "7", "-", "8", ",", "1", "0">>

(***************************************************************************)
(* C9.                                                                     *)
(***************************************************************************)
\* first-last/d
IntervalForm(first, last, d) ==
    RenderedValue(first) \o <<"-">> \o RenderedValue(last) \o <<"/">> \o NumToString(d)

\* C9: a selection of 3 or more values that is exactly first, first+d, ..., last
\* with d > 1 is displayed as first-last/d, except for hours and week days with
\* d = 2, displayed as "every 2"; {1,6,...,31} is displayed as 1-31/5; a selection
\* of 2 values is never displayed as first-last/d.
C9_Interval ==
    LET S == ValueSet(value)
    IN  /\ (IsDiscrete(value) /\ Len(value) >= 3)
             => \A d \in 2..(SetMax(S) - SetMin(S)) :
                  IsProgression(S, d)
                  => shown.text.s =
                       IF unit.type \in {"hours", "week-days"} /\ d = 2
                       THEN <<"e", "v", "e", "r", "y", " ", "2">>
                       ELSE IntervalForm(SetMin(S), SetMax(S), d)
        /\ (DefaultFormat /\ IsDiscrete(value) /\ Len(value) >= 3
              /\ S = {1, 6, 11, 16, 21, 26, 31})
             => shown.text.s = <<"1", "-", "3", "1", "/", "5">>
        /\ (IsDiscrete(value) /\ Len(value) = 2)
             => shown.text.s # IntervalForm(SetMin(S), SetMax(S), SetMax(S) - SetMin(S))

C9_Witness ==
    /\ unit.type = "month-days"
    /\ DefaultFormat
    /\ value = SeqOfSet({1, 6, 11, 16, 21, 26, 31})
    /\ shown.text.s = <<"1", "-", "3", "1", "/", "5">>

(***************************************************************************)
(* C10.                                                                    *)
(***************************************************************************)
\* C10 as stated: one selected value v is displayed as "every " and its rendered
\* value only when v > 1 and the unit is minutes or hours, and as the rendered
\* value alone otherwise.
C10_EveryOnlyMinutesHours ==
    (Len(value) = 1 /\ IsDiscrete(value))
    => shown.text.s =
         IF value[1].n > 1 /\ unit.type \in {"minutes", "hours"}
         THEN EveryPrefix \o RenderedValue(value[1].n)
         ELSE RenderedValue(value[1].n)

\* C10 amended: one selected value v is displayed as "every " followed by its
\* rendered value whenever v > 1, for every unit (month days, months and week days
\* included), and as the rendered value alone when v is 0 or 1.
C10_EveryAboveOne ==
    (Len(value) = 1 /\ IsDiscrete(value))
    => /\ ~shown.empty
       /\ shown.text.s =
            IF value[1].n > 1
            THEN EveryPrefix \o RenderedValue(value[1].n)
            ELSE RenderedValue(value[1].n)

C10_Witness ==
    /\ unit.type = "month-days"
    /\ DefaultFormat
    /\ value = <<Num(5)>>
    /\ shown.text.s = <<"e", "v", "e", "r", "y", " ", "5">>

(***************************************************************************)
(* C11.                                                                    *)
(***************************************************************************)
\* C11: whatever selection a double click commits, the display is never a raw token:
\* a periodic selection of step N is displayed as "every " followed by the digits of
\* N, and the empty selection is displayed as the empty placeholder of the unit.
\* Stated for the steps from 2 on, where the periodic selection is the one C6 names.
C11_PeriodicShownAsEvery ==
    /\ (LastDouble /\ Last.commit /\ TokenNumber(Last.token).n >= 2)
        => /\ ~shown.empty
           /\ shown.text = Str(EveryPrefix \o JsString(TokenNumber(Last.token)))
    /\ (value = <<>>) => (shown.empty /\ shown.key = unit.type)

(***************************************************************************)
(* C12.                                                                    *)
(***************************************************************************)
\* C12: while the control is disabled or read-only no operation changes anything:
\* no step taken in such a state records a click or commits a selection, be it an
\* option click, a double click or a clear.
C12_NothingWhileDisabled ==
    [][(disabled \/ readOnly) => (value' = value /\ clicks' = clicks)]_vars

(***************************************************************************)
(* C13.                                                                    *)
(***************************************************************************)
\* C13: a reset between two clicks discards the pending click buffer: an option
\* click that directly follows a clear of the selection is resolved as a fresh single
\* click, never as a double click combined with a click made before the clear.
C13_ClearDiscardsPending ==
    (Len(hist) = 2 /\ hist[1].op = "clear" /\ hist[1].commit
        /\ hist[2].op \in {"single", "double"})
    => hist[2].op = "single"

(***************************************************************************)
(* C14.                                                                    *)
(***************************************************************************)
\* C14: the generated option list holds one discrete option per integer of
\* [min, max], ascending, its token the decimal string of the integer, followed, for
\* minutes and hours only, by one periodic option "*/N" per N of [2, min(30, max)],
\* ascending; the tokens are pairwise distinct; and the list left by the host's
\* filter is a subsequence of the generated list, in the same order.
C14_OptionList ==
    LET all == generated(unit)
        got == optionsOf[unit, filterOption]
        nDiscrete == unit.max - unit.min + 1
        nPeriodic == IF unit.type \in {"minutes", "hours"}
                     THEN (IF unit.max < 30 THEN unit.max ELSE 30) - 1
                     ELSE 0
        Pos(o) == CHOOSE i \in 1..Len(all) : all[i] = o
    IN  /\ Len(all) = nDiscrete + nPeriodic
        /\ \A k \in 1..nDiscrete :
              /\ ~all[k].isPeriodicValue
              /\ ToNumber(Str(all[k].value)) = Num(unit.min + k - 1)
              /\ JsString(ToNumber(Str(all[k].value))) = all[k].value
        /\ \A k \in 1..nPeriodic :
              /\ all[nDiscrete + k].isPeriodicValue
              /\ SubSeq(all[nDiscrete + k].value, 1, 2) = <<"*", "/">>
              /\ ToNumber(Str(StripPeriodic(all[nDiscrete + k].value))) = Num(k + 1)
              /\ JsString(Num(k + 1)) = StripPeriodic(all[nDiscrete + k].value)
        /\ \A i, j \in 1..Len(all) : i # j => all[i].value # all[j].value
        /\ \A i \in 1..Len(got) : \E k \in 1..Len(all) : all[k] = got[i]
        /\ \A i \in 1..(Len(got) - 1) : Pos(got[i]) < Pos(got[i + 1])

C14_Witness ==
    /\ unit.type = "hours"
    /\ filterOption = [discrete |-> {0, 5}, periodic |-> {5}]
    /\ Len(generated(unit)) = 46
    /\ optionsOf[unit, filterOption]
         = << [value |-> <<"0">>, isPeriodicValue |-> FALSE],
              [value |-> <<"5">>, isPeriodicValue |-> FALSE],
              [value |-> <<"*", "/", "5">>, isPeriodicValue |-> TRUE] >>

(***************************************************************************)
(* C15.                                                                    *)
(***************************************************************************)
\* the selection is one periodic token: "*/" followed by the decimal digits of a step
IsPeriodicToken(v) ==
    /\ Len(v) = 1
    /\ v[1].t = "string"
    /\ StartsWith(v[1].s, PeriodicPrefix)
    /\ ~isNaN(ToNumber(Str(StripPeriodic(v[1].s))))
    /\ JsString(ToNumber(Str(StripPeriodic(v[1].s)))) = StripPeriodic(v[1].s)

\* C15: in every state reachable by clicks, double clicks and clears the committed
\* selection is either a list of distinct integers of [min, max] or one periodic
\* token; it never mixes the two and never holds a value outside [min, max].
C15_WellFormedSelection ==
    \/ /\ IsDiscrete(value)
       /\ Cardinality(ValueSet(value)) = Len(value)
       /\ ValueSet(value) \subseteq Domain(unit)
    \/ IsPeriodicToken(value)

C15_Witness ==
    /\ LastDouble
    /\ Last.commit
    /\ unit.type = "month-days"
    /\ IsDiscrete(Last.pre)
    /\ IsPeriodicToken(value)
    /\ Len(clicks) = 0

(***************************************************************************)
(* C16.                                                                    *)
(***************************************************************************)
\* C16: the pending click buffer is bounded: it holds at most 2 click events in every
\* reachable state, and it is empty once the gesture of its clicks has been resolved,
\* so that no click stays in it after the 300ms in which a second click could still
\* join it have passed.
C16_BufferBounded ==
    /\ Len(clicks) <= 2
    /\ \A i \in 1..Len(clicks) : now - clicks[i].timestamp < DoubleClickWindow

(***************************************************************************)
(* C17.                                                                    *)
(***************************************************************************)
\* C17: a double click on a token of numeric value 0 or 1 is treated as a plain
\* toggle: it never commits a periodic selection of step 0 or 1.
C17_NoPeriodicZeroOne ==
    (LastDouble /\ IsNumericToken(Last.token) /\ TokenNumber(Last.token).n \in {0, 1})
    => /\ value \notin {PeriodicSelection(0), PeriodicSelection(1)}
       /\ Last.commit => IsDiscrete(value)

(***************************************************************************)
(* C18.                                                                    *)
(***************************************************************************)
\* a double-click gesture on a numeric token whose periodic selection is already
\* the selection, as a double-click gesture on that token leaves it
RepeatedPeriodicGesture ==
    /\ DoubleAfterSingle
    /\ periodicityOnDoubleClick
    /\ IsNumericToken(hist[2].token)
    /\ hist[1].pre = PeriodicSelection(TokenNumber(hist[2].token).n)

\* C18 as stated: the periodic replacement toggles off: when what it computes equals
\* the current selection or the full domain the result is the empty selection, so a
\* second double-click gesture on the same token ends with the empty selection.
C18_TogglesOff == RepeatedPeriodicGesture => value = <<>>

\* C18 amended: the periodic replacement never toggles off: a double-click gesture on
\* a numeric token whose periodic token is already the selection commits the number
\* of the token alone and then the same periodic token again, so a second
\* double-click gesture on the same token ends with that token, not with the empty
\* selection.
C18_CommitsTokenAgain ==
    RepeatedPeriodicGesture
    => /\ hist[1].commit
       /\ hist[2].pre = <<TokenNumber(hist[2].token)>>
       /\ hist[2].commit
       /\ value = hist[1].pre
       /\ value # <<>>

C18_Witness ==
    /\ RepeatedPeriodicGesture
    /\ hist[2].token = <<"5">>
    /\ hist[1].pre = <<Str(<<"*", "/", "5">>)>>
    /\ hist[2].pre = <<Num(5)>>
    /\ value = hist[1].pre

(***************************************************************************)
(* C19.                                                                    *)
(***************************************************************************)
\* C19: every selection an option click commits through onOptionClick is a list of
\* exactly one element: stringValue is never an array, so a single click commits the
\* number of its option alone, also when that number was selected before the click
\* (the removal branch is never taken), and a double click that commits leaves one
\* element too.
C19_OneElementCommit ==
    /\ ~ArrayIsArray(stringValue(value, unit))
    /\ LastSingle
        => /\ Last.commit
           /\ ~ArrayIsArray(stringValue(Last.pre, unit))
           /\ value = <<TokenNumber(Last.token)>>
    /\ (LastDouble /\ Last.commit) => Len(value) = 1

C19_Witness ==
    /\ LastSingle
    /\ mode = "multiple"
    /\ Last.pre = <<Num(1), Num(2)>>
    /\ Last.token = <<"1">>
    /\ Last.commit
    /\ value = <<Num(1)>>

(***************************************************************************)
(* C20.                                                                    *)
(***************************************************************************)
\* C20: on an enabled control with periodicityOnDoubleClick off, a second click on
\* the same token less than 300ms after a recorded click commits nothing and empties
\* the click buffer, so that the next click on that token is again handled as a
\* single click: it commits the number of the token and is recorded.
C20_SwallowedDoubleClick ==
    /\ (LastDouble /\ ~periodicityOnDoubleClick)
        => /\ ~Last.commit
           /\ value = Last.pre
           /\ clicks = <<>>
    /\ (~periodicityOnDoubleClick /\ Len(hist) = 2 /\ hist[1].op = "double"
            /\ hist[2].op \in {"single", "double"} /\ hist[2].token = hist[1].token)
        => /\ hist[2].op = "single"
           /\ hist[2].commit
           /\ value = <<TokenNumber(hist[2].token)>>
           /\ Len(clicks) = 1
           /\ clicks[1].value = hist[2].token

C20_Witness ==
    /\ ~periodicityOnDoubleClick
    /\ Len(hist) = 2
    /\ hist[1].op = "double"
    /\ ~hist[1].commit
    /\ hist[2].op = "single"
    /\ hist[1].token = <<"5">>
    /\ hist[2].token = <<"5">>
    /\ now - clicks[1].timestamp < DoubleClickWindow
    /\ value = <<Num(5)>>

====
